---- MODULE Spec2Model ----
(***************************************************************************)
(* A model of Assignment3.JS: an Express server with eleven GET routes.    *)
(* Every route hands a selector closure to handleApiRequest, which reads   *)
(* a JSON file, parses it, applies the selector and answers 200, 404 or    *)
(* 500.                                                                    *)
(*                                                                         *)
(* JavaScript values are tagged records, one field name per type, so that  *)
(* values of different types are never equal:                              *)
(*   [undef |-> TRUE]  undefined        [null |-> TRUE]  null              *)
(*   [bool |-> b]      a boolean        [num |-> n]      an integer number *)
(*   [nan |-> TRUE]    NaN              [str |-> s]      a string          *)
(*   [arr |-> s]       an array         [obj |-> f]      an object         *)
(* A string is the sequence of its characters, each a one-character        *)
(* string; an object is a function from its own property names to values.  *)
(***************************************************************************)
EXTENDS Integers, Sequences, FiniteSets, TLC

VARIABLES store, req

vars == <<store, req>>

----------------------------------------------------------------------------
(* JavaScript values *)

Undefined == [undef |-> TRUE]
Null == [null |-> TRUE]
NaN == [nan |-> TRUE]
Bool(b) == [bool |-> b]
Num(n) == [num |-> n]
Str(s) == [str |-> s]
Arr(s) == [arr |-> s]
Obj(f) == [obj |-> f]

IsUndefined(v) == "undef" \in DOMAIN v
IsNull(v) == "null" \in DOMAIN v
IsNaN(v) == "nan" \in DOMAIN v
IsBool(v) == "bool" \in DOMAIN v
IsNum(v) == "num" \in DOMAIN v
IsStr(v) == "str" \in DOMAIN v
IsArray(v) == "arr" \in DOMAIN v
IsObj(v) == "obj" \in DOMAIN v

(* ToBoolean: what `a && b` and `c ? x : y` test. *)
Truthy(v) ==
  IF IsUndefined(v) \/ IsNull(v) \/ IsNaN(v) THEN FALSE
  ELSE IF IsBool(v) THEN v.bool
  ELSE IF IsNum(v) THEN v.num # 0
  ELSE IF IsStr(v) THEN v.str # <<>>
  ELSE TRUE

(* v.f where v is neither null nor undefined (those throw, see CanRead).   *)
(* Only own properties of parsed objects are ever named by the selectors;  *)
(* on a string, number, boolean or array such a name reads undefined.      *)
GetProp(v, f) ==
  IF IsObj(v) /\ f \in DOMAIN v.obj THEN v.obj[f] ELSE Undefined

(* Reading a property of null or undefined throws a TypeError. *)
CanRead(v) == ~(IsUndefined(v) \/ IsNull(v))

(* a === b for a number (or NaN) b: same type and same value; NaN equals   *)
(* nothing, itself included.                                               *)
StrictEq(a, b) ==
  IF IsNaN(a) \/ IsNaN(b) THEN FALSE ELSE a = b

----------------------------------------------------------------------------
(* Strings *)

Upper == <<"A","B","C","D","E","F","G","H","I","J","K","L","M",
           "N","O","P","Q","R","S","T","U","V","W","X","Y","Z">>
Lower == <<"a","b","c","d","e","f","g","h","i","j","k","l","m",
           "n","o","p","q","r","s","t","u","v","w","x","y","z">>
Digits == <<"0","1","2","3","4","5","6","7","8","9">>
WhiteSpace == {" ", "\t", "\n"}

LowerChar(c) ==
  IF \E i \in 1..26 : Upper[i] = c
  THEN Lower[CHOOSE i \in 1..26 : Upper[i] = c]
  ELSE c

(* String.prototype.toLowerCase *)
toLowerCase(s) == [i \in 1..Len(s) |-> LowerChar(s[i])]

RECURSIVE TrimStart(_)
TrimStart(s) ==
  IF s # <<>> /\ Head(s) \in WhiteSpace THEN TrimStart(Tail(s)) ELSE s

RECURSIVE TrimEnd(_)
TrimEnd(s) ==
  IF s # <<>> /\ s[Len(s)] \in WhiteSpace
  THEN TrimEnd(SubSeq(s, 1, Len(s) - 1))
  ELSE s

(* String.prototype.trim *)
trim(s) == TrimEnd(TrimStart(s))

(* String.prototype.includes: the empty string is included in every string *)
includes(hay, needle) ==
  \E i \in 0..(Len(hay) - Len(needle)) :
    SubSeq(hay, i + 1, i + Len(needle)) = needle

IsDigit(c) == \E i \in 1..10 : Digits[i] = c
DigitVal(c) == (CHOOSE i \in 1..10 : Digits[i] = c) - 1

(* The longest prefix of s made of decimal digits. *)
RECURSIVE DigitPrefix(_)
DigitPrefix(s) ==
  IF s # <<>> /\ IsDigit(Head(s)) THEN <<Head(s)>> \o DigitPrefix(Tail(s)) ELSE <<>>

RECURSIVE DecValue(_)
DecValue(ds) ==
  IF ds = <<>> THEN 0 ELSE 10 * DecValue(SubSeq(ds, 1, Len(ds) - 1)) + DigitVal(ds[Len(ds)])

(* A variant of parseInt below that yields 0 where there is no digit:      *)
(* `parseInt(text, 10) || 0`.                                              *)
ParseIntOrZero(s) ==
  LET t == TrimStart(s)
      neg == t # <<>> /\ Head(t) = "-"
      u == IF t # <<>> /\ Head(t) \in {"-", "+"} THEN Tail(t) ELSE t
      ds == DigitPrefix(u)
  IN IF ds = <<>> THEN Num(0)
     ELSE Num(IF neg THEN 0 - DecValue(ds) ELSE DecValue(ds))

(* parseInt(text, 10): skip leading white space, read an optional sign,    *)
(* then the longest run of decimal digits; whatever follows is ignored;    *)
(* NaN when there is no digit.                                             *)
ParseIntStr(s) ==
  LET t == TrimStart(s)
      neg == t # <<>> /\ Head(t) = "-"
      u == IF t # <<>> /\ Head(t) \in {"-", "+"} THEN Tail(t) ELSE t
      ds == DigitPrefix(u)
  IN IF ds = <<>> THEN NaN
     ELSE Num(IF neg THEN 0 - DecValue(ds) ELSE DecValue(ds))

(* Number(text) for the texts of the model, which hold no ".", no exponent *)
(* and no 0x/0o/0b/Infinity literal: white space is trimmed at both ends,  *)
(* the empty string is 0, an optionally signed run of digits is its value, *)
(* anything else is NaN.                                                   *)
ToNumberStr(s) ==
  LET t == trim(s)
      neg == t # <<>> /\ Head(t) = "-"
      u == IF t # <<>> /\ Head(t) \in {"-", "+"} THEN Tail(t) ELSE t
  IN IF t = <<>> THEN Num(0)
     ELSE IF u # <<>> /\ DigitPrefix(u) = u
          THEN Num(IF neg THEN 0 - DecValue(u) ELSE DecValue(u))
          ELSE NaN

RECURSIVE NatToStr(_)
NatToStr(n) ==
  IF n < 10 THEN <<Digits[n + 1]>> ELSE NatToStr(n \div 10) \o <<Digits[(n % 10) + 1]>>

(* ToString of a primitive, as parseInt applies it to a non-string         *)
(* argument.                                                               *)
ToStringPrim(v) ==
  IF IsStr(v) THEN v.str
  ELSE IF IsNum(v) THEN (IF v.num < 0 THEN <<"-">> \o NatToStr(0 - v.num) ELSE NatToStr(v.num))
  ELSE IF IsNaN(v) THEN <<"N","a","N">>
  ELSE IF IsBool(v) THEN (IF v.bool THEN <<"t","r","u","e">> ELSE <<"f","a","l","s","e">>)
  ELSE IF IsNull(v) THEN <<"n","u","l","l">>
  ELSE <<"u","n","d","e","f","i","n","e","d">>

(* parseInt(v, 10) for a primitive v *)
parseInt(v) == ParseIntStr(ToStringPrim(v))

(* a >= b and a <= b on numbers: every comparison with NaN is false *)
NumGe(a, b) == IsNum(a) /\ IsNum(b) /\ a.num >= b.num
NumLe(a, b) == IsNum(a) /\ IsNum(b) /\ a.num <= b.num

----------------------------------------------------------------------------
(* Array methods with callbacks that may throw.  A verdict is "T" (the     *)
(* callback returned a truthy value), "F" (a falsy value) or "X" (it       *)
(* threw).  Each method is given vd, the verdicts of the callback on the   *)
(* elements in order: filter calls the callback on every element, find and *)
(* some stop at the first "T".                                             *)

Threw == [threw |-> TRUE]
Ok(v) == [val |-> v]
HasThrown(r) == "threw" \in DOMAIN r

Verdict(b) == IF b THEN "T" ELSE "F"

(* The elements a callback is called on. *)
Elems(data) == IF IsArray(data) THEN data.arr ELSE <<>>

RECURSIVE Keep(_, _)
Keep(s, vd) ==
  IF s = <<>> THEN <<>>
  ELSE (IF Head(vd) = "T" THEN <<Head(s)>> ELSE <<>>) \o Keep(Tail(s), Tail(vd))

(* data.filter(cb): a TypeError when data has no filter method *)
ArrayFilter(data, vd) ==
  IF ~IsArray(data) THEN Threw
  ELSE IF \E i \in 1..Len(vd) : vd[i] = "X" THEN Threw
  ELSE Ok(Arr(Keep(data.arr, vd)))

(* The index at which find/some stops: the first "T" or "X", 0 if none. *)
FirstStop(vd) ==
  IF \E i \in 1..Len(vd) : vd[i] # "F"
  THEN CHOOSE i \in 1..Len(vd) : vd[i] # "F" /\ \A j \in 1..(i - 1) : vd[j] = "F"
  ELSE 0

(* data.find(cb) *)
ArrayFind(data, vd) ==
  IF ~IsArray(data) THEN Threw
  ELSE LET k == FirstStop(vd)
       IN IF k = 0 THEN Ok(Undefined)
          ELSE IF vd[k] = "X" THEN Threw
          ELSE Ok(data.arr[k])

(* data.some(cb), as a verdict *)
ArraySome(data, vd) ==
  IF ~IsArray(data) THEN "X"
  ELSE LET k == FirstStop(vd)
       IN IF k = 0 THEN "F" ELSE vd[k]

----------------------------------------------------------------------------
(* The selectors (the filterFunction closures of the eleven routes).       *)
(* params is req.params: a function from parameter names to strings.       *)

(* artist => artist.Nationality.toLowerCase() === requestedNationality *)
ArtistMatches(artist, requestedNationality) ==
  IF ~CanRead(artist) THEN "X"
  ELSE LET n == GetProp(artist, "Nationality")
       IN IF ~IsStr(n) THEN "X"
          ELSE Verdict(toLowerCase(n.str) = requestedNationality)

(* A variant of the callback below that does not lowercase the record's country. *)
GalleryMatchesCaseSensitive(gallery, requestedCountry) ==
  IF ~CanRead(gallery) THEN "X"
  ELSE LET c == GetProp(gallery, "GalleryCountry")
       IN IF ~IsStr(c) THEN "X"
          ELSE Verdict(c.str = requestedCountry)

(* gallery => gallery.GalleryCountry.toLowerCase() === requestedCountry *)
GalleryMatches(gallery, requestedCountry) ==
  IF ~CanRead(gallery) THEN "X"
  ELSE LET c == GetProp(gallery, "GalleryCountry")
       IN IF ~IsStr(c) THEN "X"
          ELSE Verdict(toLowerCase(c.str) = requestedCountry)

(* painting => painting.paintingID === requestedPaintingID *)
PaintingIdMatches(painting, requestedPaintingID) ==
  IF ~CanRead(painting) THEN "X"
  ELSE Verdict(StrictEq(GetProp(painting, "paintingID"), requestedPaintingID))

(* painting => painting.gallery && painting.gallery.galleryID === requestedGalleryID *)
GalleryIdMatches(painting, requestedGalleryID) ==
  IF ~CanRead(painting) THEN "X"
  ELSE LET g == GetProp(painting, "gallery")
       IN Verdict(Truthy(g) /\ StrictEq(GetProp(g, "galleryID"), requestedGalleryID))

(* painting => painting.artist && painting.artist.artistID === requestedArtistID *)
ArtistIdMatches(painting, requestedArtistID) ==
  IF ~CanRead(painting) THEN "X"
  ELSE LET a == GetProp(painting, "artist")
       IN Verdict(Truthy(a) /\ StrictEq(GetProp(a, "artistID"), requestedArtistID))

(* painting => painting.yearOfWork && parseInt(painting.yearOfWork, 10) >= minYear *)
(*             && parseInt(painting.yearOfWork, 10) <= maxYear                    *)
(* parseInt of an array or object yearOfWork is not modelled: the datasets *)
(* of the model hold none.                                                 *)
YearMatches(painting, minYear, maxYear) ==
  IF ~CanRead(painting) THEN "X"
  ELSE LET y == GetProp(painting, "yearOfWork")
       IN Verdict(/\ Truthy(y)
                  /\ NumGe(parseInt(y), minYear)
                  /\ NumLe(parseInt(y), maxYear))

(* painting => painting.title && painting.title.toLowerCase().includes(searchText) *)
TitleMatches(painting, searchText) ==
  IF ~CanRead(painting) THEN "X"
  ELSE LET t == GetProp(painting, "title")
       IN IF ~Truthy(t) THEN "F"
          ELSE IF ~IsStr(t) THEN "X"
          ELSE Verdict(includes(toLowerCase(t.str), searchText))

(* A variant of the callback below that does not lowercase the name. *)
ColorMatchesCaseSensitive(color, searchColorName) ==
  IF ~CanRead(color) THEN "X"
  ELSE LET n == GetProp(color, "name")
       IN IF ~Truthy(n) THEN Verdict(includes(<<>>, searchColorName))
          ELSE IF ~IsStr(n) THEN "X"
          ELSE Verdict(includes(trim(n.str), searchColorName))

(* color => { const lowerCaseColorName = color.name ? color.name.toLowerCase().trim() : ''; *)
(*            return lowerCaseColorName.includes(searchColorName); }                         *)
ColorMatches(color, searchColorName) ==
  IF ~CanRead(color) THEN "X"
  ELSE LET n == GetProp(color, "name")
       IN IF ~Truthy(n) THEN Verdict(includes(<<>>, searchColorName))
          ELSE IF ~IsStr(n) THEN "X"
          ELSE Verdict(includes(trim(toLowerCase(n.str)), searchColorName))

(* painting => painting.details && painting.details.annotation &&                  *)
(*             painting.details.annotation.dominantColors && dominantColors.some() *)
PaintingColorMatches(painting, searchColorName) ==
  IF ~CanRead(painting) THEN "X"
  ELSE LET d == GetProp(painting, "details")
           a == GetProp(d, "annotation")
           c == GetProp(a, "dominantColors")
           vd == [i \in 1..Len(Elems(c)) |-> ColorMatches(Elems(c)[i], searchColorName)]
       IN IF ~(Truthy(d) /\ Truthy(a) /\ Truthy(c)) THEN "F"
          ELSE ArraySome(c, vd)

Routes == {"artists", "artistsByCountry", "galleries", "galleriesByCountry",
           "paintings", "paintingById", "paintingsByGallery", "paintingsByArtist",
           "paintingsByYear", "paintingsByTitle", "paintingsByColor"}

(* The selector each route passes to handleApiRequest, applied to the      *)
(* parsed document: Ok(value) or Threw.                                    *)
filterFunction(route, data, params) ==
  CASE route \in {"artists", "galleries", "paintings"} -> Ok(data)
    [] route = "artistsByCountry" ->
         LET requestedNationality == toLowerCase(params.country)
             vd == [i \in 1..Len(Elems(data)) |-> ArtistMatches(Elems(data)[i], requestedNationality)]
         IN ArrayFilter(data, vd)
    [] route = "galleriesByCountry" ->
         LET requestedCountry == toLowerCase(params.country)
             vd == [i \in 1..Len(Elems(data)) |-> GalleryMatches(Elems(data)[i], requestedCountry)]
         IN ArrayFilter(data, vd)
    [] route = "paintingById" ->
         LET requestedPaintingID == ToNumberStr(params.paintingID)
             vd == [i \in 1..Len(Elems(data)) |-> PaintingIdMatches(Elems(data)[i], requestedPaintingID)]
         IN ArrayFind(data, vd)
    [] route = "paintingsByGallery" ->
         LET requestedGalleryID == ParseIntStr(params.galleryID)
             vd == [i \in 1..Len(Elems(data)) |-> GalleryIdMatches(Elems(data)[i], requestedGalleryID)]
         IN ArrayFilter(data, vd)
    [] route = "paintingsByArtist" ->
         LET requestedArtistID == ParseIntStr(params.artistID)
             vd == [i \in 1..Len(Elems(data)) |-> ArtistIdMatches(Elems(data)[i], requestedArtistID)]
         IN ArrayFilter(data, vd)
    [] route = "paintingsByYear" ->
         LET minYear == ParseIntStr(params.min)
             maxYear == ParseIntStr(params.max)
             vd == [i \in 1..Len(Elems(data)) |-> YearMatches(Elems(data)[i], minYear, maxYear)]
         IN ArrayFilter(data, vd)
    [] route = "paintingsByTitle" ->
         LET searchText == toLowerCase(params.text)
             vd == [i \in 1..Len(Elems(data)) |-> TitleMatches(Elems(data)[i], searchText)]
         IN ArrayFilter(data, vd)
    [] route = "paintingsByColor" ->
         LET searchColorName == toLowerCase(params.name)
             vd == [i \in 1..Len(Elems(data)) |-> PaintingColorMatches(Elems(data)[i], searchColorName)]
         IN ArrayFilter(data, vd)

----------------------------------------------------------------------------
(* Files and paths.  A path is the sequence of its segments.               *)

fileArtist == "artists.json"
fileGallery == "galleries.json"
filePaintings == "nested.json"
FileNames == {fileArtist, fileGallery, filePaintings}

(* __dirname: the directory that holds the program; any directory other    *)
(* than the file-system root.                                              *)
dirname == <<"srv", "app">>

(* path.join(a, b, c): the segments of a, b and c in a row; an absolute    *)
(* second argument does not restart the path (that is path.resolve).       *)
PathJoin(a, b, c) == a \o b \o <<c>>

(* The dataset file of each route (the second argument the route passes).  *)
RouteFile(route) ==
  IF route \in {"artists", "artistsByCountry"} THEN fileArtist
  ELSE IF route \in {"galleries", "galleriesByCountry"} THEN fileGallery
  ELSE filePaintings

(* Every route passes __dirname as handleApiRequest's `directory`. *)
RouteDirectory(route) == dirname

(* const filePath = path.join(__dirname, directory, filename) *)
FilePath(directory, filename) == PathJoin(dirname, directory, filename)

(* Where the three dataset files are shipped: beside the program. *)
DeployedPath(f) == dirname \o <<f>>

ReadPaths == {FilePath(RouteDirectory(route), RouteFile(route)) : route \in Routes}
Paths == {DeployedPath(f) : f \in FileNames} \cup ReadPaths

(* What a path holds: no file, text that is not JSON, or the JSON text of  *)
(* a document.                                                             *)
NoFile == [nofile |-> TRUE]
Garbage == [garbage |-> TRUE]
FileOf(doc) == [json |-> doc]

(* await fs.readFile(filePath, 'utf8'): the text, or a rejection (ENOENT) *)
ReadFile(st, path) ==
  IF path \notin DOMAIN st \/ st[path] = NoFile THEN Threw ELSE Ok(st[path])

(* JSON.parse(data): the document, or a SyntaxError *)
JSONparse(text) == IF text = Garbage THEN Threw ELSE Ok(text.json)

----------------------------------------------------------------------------
(* handleApiRequest after the read: parse, select, resolve, respond.       *)

(* formatJsonResponse: JSON.stringify(data, null, 2).  The text is kept as *)
(* the value it prints: on values that JSON.parse produced, stringify      *)
(* throws nothing and different values print differently.                  *)
formatJsonResponse(data) == [json |-> data]

(* A variant of the test below without the length test on arrays. *)
IsFoundWhenDefined(filteredData) == ~IsUndefined(filteredData)

(* A variant of the test below that tests truthiness: `filteredData && ...` *)
IsFoundWhenTruthy(filteredData) ==
  /\ Truthy(filteredData)
  /\ (IF IsArray(filteredData) THEN Len(filteredData.arr) > 0 ELSE TRUE)

(* filteredData !== undefined &&                                           *)
(*   (Array.isArray(filteredData) ? filteredData.length > 0 : true)        *)
IsFound(filteredData) ==
  /\ ~IsUndefined(filteredData)
  /\ (IF IsArray(filteredData) THEN Len(filteredData.arr) > 0 ELSE TRUE)

InternalServerError == [text |-> "Internal Server Error"]

(* res.setHeader('Content-Type', 'application/json'); res.send(formattedData) *)
FoundResponse(filteredData) ==
  [status |-> 200, ctype |-> "application/json", body |-> formatJsonResponse(filteredData)]

(* res.status(404).json({ error: `No data found ... in ${req.url}` }) *)
NotFoundResponse(route, params) ==
  [status |-> 404, ctype |-> "application/json", body |-> [error |-> <<route, params>>]]

(* A variant of the answer below that sends the cause: res.status(500).send(error.message) *)
ErrorResponseWithCause(cause) ==
  [status |-> 500, ctype |-> "text/html", body |-> [text |-> cause]]

(* res.status(500).send('Internal Server Error') *)
ErrorResponse(cause) ==
  [status |-> 500, ctype |-> "text/html", body |-> InternalServerError]

(* The try block and the catch block of handleApiRequest, from the settled *)
(* read on: the response sent and the cause written to the log ("none"     *)
(* when nothing was caught).                                               *)
Respond(route, params, got) ==
  IF HasThrown(got) THEN [res |-> ErrorResponse("read"), cause |-> "read"]
  ELSE LET jsonData == JSONparse(got.val)
       IN IF HasThrown(jsonData) THEN [res |-> ErrorResponse("parse"), cause |-> "parse"]
          ELSE LET filteredData == filterFunction(route, jsonData.val, params)
               IN IF HasThrown(filteredData)
                  THEN [res |-> ErrorResponse("selector"), cause |-> "selector"]
                  ELSE IF IsFound(filteredData.val)
                       THEN [res |-> FoundResponse(filteredData.val), cause |-> "none"]
                       ELSE [res |-> NotFoundResponse(route, params), cause |-> "none"]

(* A variant of the definition below in which the catch block rethrows. *)
RejectsOnError(outcome) == outcome.res.status = 500

(* Whether the promise of handleApiRequest rejects: its catch block ends   *)
(* normally, so it never does.                                             *)
Rejects(outcome) == FALSE

(* The routes that wrap their call of handleApiRequest in a try/catch. *)
HasOuterCatch(route) == route \in {"paintingById", "paintingsByGallery"}

----------------------------------------------------------------------------
(* The datasets and request parameters the model draws from. *)

MaxRecords == 2
NumReq == 2

sFrance == <<"F","r","a","n","c","e">>
sFRANCE == <<"F","R","A","N","C","E">>
sfrance == <<"f","r","a","n","c","e">>
sItaly == <<"I","t","a","l","y">>
sUK == <<"U","K">>

aFrance == Obj([artistID |-> Num(1), Nationality |-> Str(sFrance)])
aFRANCE == Obj([artistID |-> Num(2), Nationality |-> Str(sFRANCE)])
aItaly == Obj([artistID |-> Num(3), Nationality |-> Str(sItaly)])
aNoNationality == Obj([artistID |-> Num(4)])
ArtistRecords == {aFrance, aFRANCE, aItaly, aNoNationality, Null}

gFrance == Obj([GalleryID |-> Num(1), GalleryCountry |-> Str(sFrance)])
gfrance == Obj([GalleryID |-> Num(2), GalleryCountry |-> Str(sfrance)])
gItaly == Obj([GalleryID |-> Num(3), GalleryCountry |-> Str(sItaly)])
gNoCountry == Obj([GalleryID |-> Num(4)])
GalleryRecords == {gFrance, gfrance, gItaly, gNoCountry, Null}

Colors(entries) == Obj([annotation |-> Obj([dominantColors |-> entries])])

pSun ==
  Obj([paintingID |-> Num(1), title |-> Str(<<"S","u","n">>),
       yearOfWork |-> Str(<<"1","9","9","0">>),
       artist |-> Obj([artistID |-> Num(7)]),
       gallery |-> Obj([galleryID |-> Num(3)]),
       details |-> Colors(Arr(<<Obj([name |-> Str(<<" ","D","a","r","k"," ","R","e","d"," ">>)])>>))])
pSea ==
  Obj([paintingID |-> Num(12), title |-> Str(<<"s","e","a">>),
       yearOfWork |-> Num(1889),
       artist |-> Obj([artistID |-> Num(12)]),
       gallery |-> Obj([galleryID |-> Num(12)]),
       details |-> Colors(Arr(<<Obj([web |-> Str(<<"#","0">>)]),
                                Obj([name |-> Str(<<"N","a","v","y">>)])>>))])
pZero ==
  Obj([paintingID |-> Num(0), title |-> Str(<<>>), yearOfWork |-> Num(0),
       artist |-> Null, details |-> Colors(Arr(<<>>))])
pTextId ==
  Obj([paintingID |-> Str(<<"1">>), yearOfWork |-> Str(<<"0">>),
       gallery |-> Obj([galleryID |-> Str(<<"3">>)]),
       details |-> Colors(Arr(<<Obj([web |-> Str(<<"#","0">>)])>>))])
pOdd ==
  Obj([paintingID |-> Num(2), title |-> Num(5),
       yearOfWork |-> Str(<<"1","9","9","0","s">>),
       gallery |-> Str(<<"x">>), artist |-> Obj([artistID |-> Num(7)]),
       details |-> Colors(Str(<<"r","e","d">>))])
pBadColor ==
  Obj([paintingID |-> Num(3), title |-> Str(<<"R","e","d"," ","S","u","n">>),
       details |-> Colors(Arr(<<Obj([name |-> Str(<<"R","e","d">>)]), Null>>))])
pBare == Obj([paintingID |-> Num(99)])
PaintingRecords == {pSun, pSea, pZero, pTextId, pOdd, pBadColor, pBare, Null}

Records(f) ==
  IF f = fileArtist THEN ArtistRecords
  ELSE IF f = fileGallery THEN GalleryRecords
  ELSE PaintingRecords

SeqsUpTo(S, n) == UNION {[1..k -> S] : k \in 0..n}

(* Documents that are not arrays. *)
ScalarDocs == {Null, Num(0), Str(<<>>), Bool(FALSE), Obj([note |-> Str(<<"x">>)])}

Docs(f) == {Arr(s) : s \in SeqsUpTo(Records(f), MaxRecords)} \cup ScalarDocs

Contents(f) == {NoFile, Garbage} \cup {FileOf(d) : d \in Docs(f)}

NoParams == [none |-> <<>>]

IdTexts == {<<"1">>, <<"1","2">>, <<"1","2","a","b","c">>, <<"a","b","c">>,
            <<" ">>, <<"7">>, <<"3">>}
YearTexts == {<<"0">>, <<"1","8","8","9">>, <<"1","9","9","0">>,
              <<"1","9","9","0","x">>, <<"a","b","c">>}
TitleTexts == {<<"s","u","n">>, <<"S","U","N">>, <<"e">>, <<"z">>}
ColorTexts == {<<"d","a","r","k"," ","r","e","d">>, <<"R","E","D">>,
               <<"n","a","v","y">>, <<" ">>, <<"d"," ">>, <<"b","l","u","e">>}
CountryTexts == {sFRANCE, sfrance, sItaly, sUK}

(* req.params of every route *)
Params(route) ==
  CASE route \in {"artists", "galleries", "paintings"} -> {NoParams}
    [] route \in {"artistsByCountry", "galleriesByCountry"} ->
         {[country |-> c] : c \in CountryTexts}
    [] route = "paintingById" -> {[paintingID |-> t] : t \in IdTexts}
    [] route = "paintingsByGallery" -> {[galleryID |-> t] : t \in IdTexts}
    [] route = "paintingsByArtist" -> {[artistID |-> t] : t \in IdTexts}
    [] route = "paintingsByYear" -> {[min |-> a, max |-> b] : a \in YearTexts, b \in YearTexts}
    [] route = "paintingsByTitle" -> {[text |-> t] : t \in TitleTexts}
    [] route = "paintingsByColor" -> {[name |-> t] : t \in ColorTexts}

(* The one document per file, and the one parameter choice per route, of   *)
(* the specification with concurrent requests.                             *)
ShippedDoc(f) ==
  IF f = fileArtist THEN Arr(<<aFrance, aItaly>>)
  ELSE IF f = fileGallery THEN Arr(<<gFrance>>)
  ELSE Arr(<<pSun, pSea>>)

ServedParams(route) ==
  CASE route \in {"artists", "galleries", "paintings"} -> {NoParams}
    [] route \in {"artistsByCountry", "galleriesByCountry"} -> {[country |-> sFRANCE]}
    [] route = "paintingById" -> {[paintingID |-> <<"1">>]}
    [] route = "paintingsByGallery" -> {[galleryID |-> <<"3">>]}
    [] route = "paintingsByArtist" -> {[artistID |-> <<"a","b","c">>]}
    [] route = "paintingsByYear" -> {[min |-> <<"1","8","8","9">>, max |-> <<"1","9","9","0">>]}
    [] route = "paintingsByTitle" -> {[text |-> <<"z">>]}
    [] route = "paintingsByColor" -> {[name |-> <<"R","E","D">>]}

----------------------------------------------------------------------------
(* State.  store maps every path to what it holds.  req[r] is request r:   *)
(*   pc       "idle", "reading" (suspended at await fs.readFile),          *)
(*            "settled" (the read has resolved or rejected), "returned"    *)
(*            (handleApiRequest has finished), "done" (the route handler   *)
(*            has finished)                                                *)
(*   got      what the request's own read returned                        *)
(*   sent     the responses written to res, in order                      *)
(*   log      the causes written by console.error, in order               *)
(*   rejected whether the promise of handleApiRequest rejected            *)
(*   escaped  whether a rejection left the route handler uncaught         *)

Req == 1..NumReq

Pending == [pending |-> TRUE]

IdleReq ==
  [pc |-> "idle", route |-> "none", params |-> NoParams, path |-> <<>>,
   got |-> Pending, sent |-> <<>>, log |-> <<>>, rejected |-> FALSE, escaped |-> FALSE]

FileAt(path) == path[Len(path)]

Deployment ==
  [p \in Paths |->
     IF p \in {DeployedPath(f) : f \in FileNames} THEN FileOf(ShippedDoc(FileAt(p))) ELSE NoFile]

(* A variant of the definition below in which the text is kept in one      *)
(* variable shared by all requests, here the one of the first request.     *)
LoadedTextShared(rq, r) ==
  IF rq[1].pc \in {"settled", "returned", "done"} THEN rq[1].got ELSE rq[r].got

(* The text handleApiRequest parses: the one its own read returned. *)
LoadedText(rq, r) == rq[r].got

(* A route handler runs up to the await in handleApiRequest: the path is   *)
(* built and the read is issued.  Slots are taken in order of arrival.     *)
Receive(r, route, params) ==
  /\ req[r].pc = "idle"
  /\ \A q \in 1..(r - 1) : req[q].pc # "idle"
  /\ req' = [req EXCEPT ![r] =
               [@ EXCEPT !.pc = "reading", !.route = route, !.params = params,
                         !.path = FilePath(RouteDirectory(route), RouteFile(route))]]
  /\ UNCHANGED store

(* The read of request r settles with what the path holds now. *)
ReadSettle(r) ==
  /\ req[r].pc = "reading"
  /\ req' = [req EXCEPT ![r] =
               [@ EXCEPT !.pc = "settled", !.got = ReadFile(store, req[r].path)]]
  /\ UNCHANGED store

(* The request after handleApiRequest has resumed from the await and run   *)
(* to its end.                                                             *)
Resumed(rq, r) ==
  LET out == Respond(rq[r].route, rq[r].params, LoadedText(rq, r))
  IN [rq[r] EXCEPT !.pc = "returned",
                   !.sent = Append(@, out.res),
                   !.log = IF out.cause = "none" THEN @ ELSE Append(@, out.cause),
                   !.rejected = Rejects(out)]

(* handleApiRequest resumes after the await and runs to its end. *)
Resume(r) ==
  /\ req[r].pc = "settled"
  /\ req' = [req EXCEPT ![r] = Resumed(req, r)]
  /\ UNCHANGED store

(* The route handler resumes after `await handleApiRequest(...)`: the      *)
(* catch block of painting-by-id and paintings-by-gallery-id answers 500   *)
(* to a rejection; in the other routes a rejection leaves the handler.     *)
RouteReturn(r) ==
  /\ req[r].pc = "returned"
  /\ req' = [req EXCEPT ![r] =
               [@ EXCEPT !.pc = "done",
                         !.sent = IF req[r].rejected /\ HasOuterCatch(req[r].route)
                                  THEN Append(@, ErrorResponse("outer")) ELSE @,
                         !.log = IF req[r].rejected /\ HasOuterCatch(req[r].route)
                                 THEN Append(@, "outer") ELSE @,
                         !.escaped = req[r].rejected /\ ~HasOuterCatch(req[r].route)]]
  /\ UNCHANGED store

(* Somebody outside the program rewrites, creates or deletes a file the    *)
(* program reads.                                                          *)
EditFile(p, c) ==
  /\ p \in ReadPaths
  /\ c # store[p]
  /\ store' = [store EXCEPT ![p] = c]
  /\ UNCHANGED req

EditContents(p) == {NoFile, FileOf(ShippedDoc(FileAt(p)))}

Init ==
  /\ store = Deployment
  /\ req = [r \in Req |-> IdleReq]

Next ==
  \/ \E r \in Req : \E route \in Routes : \E params \in ServedParams(route) :
       Receive(r, route, params)
  \/ \E r \in Req : ReadSettle(r)
  \/ \E r \in Req : Resume(r)
  \/ \E r \in Req : RouteReturn(r)
  \/ \E p \in ReadPaths : \E c \in EditContents(p) : EditFile(p, c)

Spec == Init /\ [][Next]_vars

(* One request against one dataset file, both drawn from the sets above:   *)
(* the specification of the selectors and of the resolution rule.          *)
SelInit ==
  /\ \E f \in FileNames : \E c \in Contents(f) :
       store = [p \in Paths |->
                  IF p = FilePath(dirname, f) THEN c
                  ELSE IF p \in ReadPaths THEN NoFile
                  ELSE Deployment[p]]
  /\ req = [r \in Req |-> IdleReq]

SelNext ==
  \/ \E route \in Routes : \E params \in Params(route) : Receive(1, route, params)
  \/ ReadSettle(1)
  \/ Resume(1)
  \/ RouteReturn(1)

SelSpec == SelInit /\ [][SelNext]_vars

(* The event loop runs every continuation that is ready: weak fairness of  *)
(* Resume(r) and of RouteReturn(r).  WF_vars(Resume(r)) is written out as   *)
(* []<>~ENABLED <<Resume(r)>>_vars \/ []<><<Resume(r)>>_vars, with the       *)
(* ENABLED formula replaced by its equivalent req[r].pc = "settled" (a     *)
(* Resume(r) step is possible in exactly those states, and changes pc).    *)
ResumeIsFair(r) == []<>(req[r].pc # "settled") \/ []<><<Resume(r)>>_vars

(* One request against one dataset file, with the fair event loop. *)
FairSpec == SelSpec /\ \A r \in Req : ResumeIsFair(r) /\ WF_vars(RouteReturn(r))

----------------------------------------------------------------------------
(* What the properties speak about. *)

Answered(r) == req[r].pc \in {"returned", "done"}

(* The read of request r returned text that parses. *)
Loaded(r) == "val" \in DOMAIN req[r].got /\ req[r].got.val # Garbage

LoadedDoc(r) == req[r].got.val.json

(* The selector's result on the request's own document. *)
Selected(r) == filterFunction(req[r].route, LoadedDoc(r), req[r].params)

Selects(r) == Loaded(r) /\ ~HasThrown(Selected(r))

IsObjArray(doc) == IsArray(doc) /\ \A i \in 1..Len(doc.arr) : IsObj(doc.arr[i])

(* C1: when the dataset loads and parses and the selector returns a        *)
(* sequence, the one response is 200 with content-type application/json    *)
(* and the sequence as body if the sequence is not empty, and 404 if it is *)
(* empty.                                                                  *)
C1_SequenceFoundIffNonEmpty ==
  \A r \in Req :
    (Answered(r) /\ Selects(r) /\ IsArray(Selected(r).val)) =>
      /\ Len(req[r].sent) = 1
      /\ IF Len(Selected(r).val.arr) > 0
         THEN req[r].sent[1] =
                [status |-> 200, ctype |-> "application/json", body |-> [json |-> Selected(r).val]]
         ELSE req[r].sent[1].status = 404

(* An identity selector over an empty dataset was answered 404. *)
C1_Witness ==
  \E r \in Req :
    /\ Answered(r) /\ Loaded(r)
    /\ req[r].route = "paintings"
    /\ LoadedDoc(r) = Arr(<<>>)
    /\ req[r].sent[1].status = 404

(* C2 as stated: a result that is not a sequence is answered 200 exactly   *)
(* when it is neither undefined nor null, and 404 otherwise.               *)
C2_FoundIffNotUndefinedNorNull ==
  \A r \in Req :
    (Answered(r) /\ Selects(r) /\ ~IsArray(Selected(r).val)) =>
      /\ Len(req[r].sent) = 1
      /\ IF IsUndefined(Selected(r).val) \/ IsNull(Selected(r).val)
         THEN req[r].sent[1].status = 404
         ELSE req[r].sent[1].status = 200

(* C2 amended: a result that is not a sequence is answered 404 exactly     *)
(* when it is undefined; every other value, null and the falsy values ""   *)
(* 0 and false included, is answered 200 with the value as body.           *)
C2_FoundIffNotUndefined ==
  \A r \in Req :
    (Answered(r) /\ Selects(r) /\ ~IsArray(Selected(r).val)) =>
      /\ Len(req[r].sent) = 1
      /\ IF IsUndefined(Selected(r).val)
         THEN req[r].sent[1].status = 404
         ELSE req[r].sent[1] =
                [status |-> 200, ctype |-> "application/json", body |-> [json |-> Selected(r).val]]

(* An identity selector over a document that is the empty string was       *)
(* answered 200.                                                           *)
C2_Witness ==
  \E r \in Req :
    /\ Answered(r) /\ Loaded(r)
    /\ req[r].route = "artists"
    /\ LoadedDoc(r) = Str(<<>>)
    /\ req[r].sent[1].status = 200

(* C3: when the read fails, the text does not parse or the selector        *)
(* throws, the one response is 500 with the body "Internal Server Error",  *)
(* the cause is written to the log only, and nothing leaves the handler.   *)
C3_FaultsAnswered500 ==
  \A r \in Req :
    (Answered(r) /\ ~Selects(r)) =>
      /\ req[r].sent = <<[status |-> 500, ctype |-> "text/html",
                          body |-> [text |-> "Internal Server Error"]]>>
      /\ req[r].log = <<IF HasThrown(req[r].got) THEN "read"
                        ELSE IF ~Loaded(r) THEN "parse" ELSE "selector">>
      /\ ~req[r].rejected
      /\ ~req[r].escaped

(* The artists-by-country selector threw on an artist without Nationality  *)
(* and the request was answered 500.                                       *)
C3_Witness ==
  \E r \in Req :
    /\ req[r].pc = "done" /\ Loaded(r)
    /\ req[r].route = "artistsByCountry"
    /\ LoadedDoc(r) = Arr(<<aFrance, aNoNationality>>)
    /\ req[r].sent[1].status = 500

NumericRoutes == {"paintingById", "paintingsByGallery", "paintingsByArtist", "paintingsByYear"}

(* The numeric parameter texts of a request. *)
NumericTexts(r) ==
  CASE req[r].route = "paintingById" -> {req[r].params.paintingID}
    [] req[r].route = "paintingsByGallery" -> {req[r].params.galleryID}
    [] req[r].route = "paintingsByArtist" -> {req[r].params.artistID}
    [] req[r].route = "paintingsByYear" -> {req[r].params.min, req[r].params.max}

(* A text that is a decimal numeral and nothing else. *)
IsNumeral(t) == t # <<>> /\ \A i \in 1..Len(t) : IsDigit(t[i])

(* A text with no digit where a number would start: after leading white    *)
(* space and one optional sign.                                            *)
NoLeadingDigit(t) ==
  LET u == TrimStart(t)
      w == IF u # <<>> /\ u[1] \in {"-", "+"} THEN Tail(u) ELSE u
  IN w = <<>> \/ ~IsDigit(w[1])

(* A text that Number() does not read as a number: not empty after         *)
(* trimming, and not an optionally signed numeral.                         *)
NotANumberText(t) ==
  LET u == trim(t)
      w == IF u # <<>> /\ u[1] \in {"-", "+"} THEN Tail(u) ELSE u
  IN u # <<>> /\ ~IsNumeral(w)

(* C4 as stated, on datasets that are arrays of objects: on the four       *)
(* numeric routes, when the dataset loads and a parameter is not a         *)
(* numeral, the response is 404.                                           *)
C4_MalformedIsNotFound ==
  \A r \in Req :
    (/\ Answered(r) /\ Loaded(r) /\ IsObjArray(LoadedDoc(r))
     /\ req[r].route \in NumericRoutes
     /\ \E t \in NumericTexts(r) : ~IsNumeral(t)) =>
      /\ Len(req[r].sent) = 1
      /\ req[r].sent[1].status = 404

(* C4 amended: on the four numeric routes, when a parameter parses to      *)
(* not-a-number (under parseInt: no digit after leading white space and an *)
(* optional sign; under Number, for painting-by-id: not blank and not a    *)
(* signed numeral) and the selector does not throw, the response is 404.   *)
C4_NaNIsNotFound ==
  \A r \in Req :
    (/\ Answered(r) /\ Selects(r)
     /\ req[r].route \in NumericRoutes
     /\ \E t \in NumericTexts(r) :
          IF req[r].route = "paintingById" THEN NotANumberText(t) ELSE NoLeadingDigit(t)) =>
      /\ Len(req[r].sent) = 1
      /\ req[r].sent[1].status = 404

(* A year-range request whose lower bound is "abc", over a dataset with a  *)
(* painting of 1990, was answered 404.                                     *)
C4_Witness ==
  \E r \in Req :
    /\ Answered(r) /\ Selects(r)
    /\ req[r].route = "paintingsByYear"
    /\ req[r].params = [min |-> <<"a","b","c">>, max |-> <<"1","9","9","0">>]
    /\ LoadedDoc(r) = Arr(<<pSun>>)
    /\ req[r].sent[1].status = 404

(* The paintings the year-range route is to return: yearOfWork is a string *)
(* or a number and min <= parseInt(yearOfWork) <= max.                     *)
InYearRange(painting, minYear, maxYear) ==
  LET y == GetProp(painting, "yearOfWork")
  IN /\ IsStr(y) \/ IsNum(y)
     /\ NumGe(parseInt(y), minYear)
     /\ NumLe(parseInt(y), maxYear)

(* C5: on the year-range route with numeral bounds, the result is exactly  *)
(* the paintings, in dataset order, whose yearOfWork is present and lies   *)
(* between the bounds, both included: 200 with them as body, or 404 when   *)
(* there are none.                                                         *)
C5_YearRangeExact ==
  \A r \in Req :
    (/\ Answered(r) /\ Loaded(r)
     /\ req[r].route = "paintingsByYear"
     /\ IsNumeral(req[r].params.min) /\ IsNumeral(req[r].params.max)
     /\ IsObjArray(LoadedDoc(r))) =>
      LET minYear == Num(DecValue(req[r].params.min))
          maxYear == Num(DecValue(req[r].params.max))
          Hit(painting) == InYearRange(painting, minYear, maxYear)
          expected == SelectSeq(LoadedDoc(r).arr, Hit)
      IN /\ Len(req[r].sent) = 1
         /\ IF expected # <<>>
            THEN /\ req[r].sent[1].status = 200
                 /\ req[r].sent[1].body = [json |-> Arr(expected)]
            ELSE req[r].sent[1].status = 404

(* The paintings the color route is to return: details, annotation and    *)
(* dominantColors are there and some entry has a name whose lowercased,    *)
(* trimmed form contains the lowercased query.                             *)
HasColor(painting, q) ==
  LET d == GetProp(painting, "details")
      a == GetProp(d, "annotation")
      c == GetProp(a, "dominantColors")
  IN /\ IsObj(d) /\ IsObj(a) /\ IsArray(c)
     /\ \E i \in 1..Len(c.arr) :
          /\ IsObj(c.arr[i])
          /\ IsStr(GetProp(c.arr[i], "name"))
          /\ includes(trim(toLowerCase(GetProp(c.arr[i], "name").str)), toLowerCase(q))

SameButCase(s, t) ==
  /\ Len(s) = Len(t)
  /\ \A i \in 1..Len(s) :
       \/ s[i] = t[i]
       \/ \E k \in 1..26 : {s[i], t[i]} = {Upper[k], Lower[k]}

CountryField(route) == IF route = "artistsByCountry" THEN "Nationality" ELSE "GalleryCountry"

(* The status of a response and the records it carries. *)
StatusAndRecords(res) ==
  [status |-> res.status, records |-> IF res.status = 200 THEN res.body ELSE Null]

(* C7: on the two by-country routes, a request and the same request with   *)
(* the country in another letter case get the same status and the same     *)
(* records; when the selector does not throw the records are exactly those *)
(* whose country equals the parameter but for case.                        *)
C7_CountryIgnoresCase ==
  \A r \in Req :
    (/\ Answered(r) /\ Loaded(r)
     /\ req[r].route \in {"artistsByCountry", "galleriesByCountry"}) =>
      /\ \A c \in CountryTexts :
           SameButCase(c, req[r].params.country) =>
             StatusAndRecords(Respond(req[r].route, [country |-> c], req[r].got).res)
               = StatusAndRecords(req[r].sent[1])
      /\ IsObjArray(LoadedDoc(r)) /\ Selects(r) =>
           LET Hit(rec) ==
                 /\ IsStr(GetProp(rec, CountryField(req[r].route)))
                 /\ SameButCase(GetProp(rec, CountryField(req[r].route)).str,
                                req[r].params.country)
           IN Selected(r).val = Arr(SelectSeq(LoadedDoc(r).arr, Hit))

(* Galleries "France" and "france" were both returned for "FRANCE". *)
C7_Witness ==
  \E r \in Req :
    /\ Answered(r) /\ Loaded(r)
    /\ req[r].route = "galleriesByCountry"
    /\ req[r].params.country = sFRANCE
    /\ LoadedDoc(r) = Arr(<<gFrance, gfrance>>)
    /\ req[r].sent[1].status = 200
    /\ req[r].sent[1].body = [json |-> Arr(<<gFrance, gfrance>>)]

C9_ExactlyOneResponse ==
  /\ [](\A r \in Req :
          /\ Len(req[r].sent) <= 1
          /\ req[r].pc \in {"idle", "reading", "settled"} => req[r].sent = <<>>
          /\ Answered(r) => /\ Len(req[r].sent) = 1
                            /\ req[r].sent[1].status \in {200, 404, 500}
          /\ ~req[r].escaped)
  /\ \A r \in Req :
       (req[r].pc = "settled") ~> (req[r].pc = "done" /\ Len(req[r].sent) = 1)

(* A painting-by-id request, a route with the outer try/catch, finished    *)
(* with one response after a failed read.                                  *)
C9_Witness ==
  \E r \in Req :
    /\ req[r].pc = "done"
    /\ req[r].route = "paintingById"
    /\ HasThrown(req[r].got)
    /\ Len(req[r].sent) = 1
    /\ req[r].sent[1].status = 500

(* C10: the path read is the route's dataset file in the program's         *)
(* directory, so when that file is there and well-formed the read does not *)
(* fail.                                                                   *)
C10_ReadsDeployedFile ==
  \A r \in Req :
    (/\ req[r].pc \in {"settled", "returned", "done"}
     /\ store[DeployedPath(RouteFile(req[r].route))] \notin {NoFile, Garbage}) =>
      /\ req[r].path = DeployedPath(RouteFile(req[r].route))
      /\ ~HasThrown(req[r].got)
====
